---- MODULE Spec2Model ----
(***************************************************************************)
(* A model of the accessible route optimizer: the AccessibilityFilter of   *)
(* src/src/accessibility.py and the AccessibleRouter of                    *)
(* src/src/routing_engine.py.                                              *)
(*                                                                         *)
(* A Python dict is a TLA+ function whose DOMAIN is the set of keys that   *)
(* are present, so that d.get(k, default) is Get(d, k, default).  A        *)
(* networkx Graph is a record [nodes, edges]: the set of its nodes and a   *)
(* dict from the undirected edge {u, v} to the attribute dict of the edge. *)
(* Python's None is the empty tuple; an f-string message is modelled by    *)
(* its fixed leading text.                                                 *)
(***************************************************************************)
EXTENDS Integers, Sequences, FiniteSets, TLC

VARIABLES
    graph,          \* AccessibleRouter.graph
    heap,           \* the dict objects holding accessibility data, by object id
    router_ref,     \* AccessibleRouter.accessibility_data: a reference into heap
    filter_ref,     \* AccessibleRouter.accessibility_filter.accessibility_data
    result,         \* the value returned by the call in progress, or NoCall
    inflight,       \* a find_accessible_path/get_accessible_stops call that has
                    \* started and not returned (the concurrent specification)
    snapshots,      \* the accessibility maps that existed while inflight ran
    init_data,      \* the accessibility map the router was constructed with
    updates_log,    \* the update_accessibility calls made so far, in order
    main            \* the run of main.py: its position, arguments and data
                    \* files; NoCall when the router is built by its caller

vars == <<graph, heap, router_ref, filter_ref, result, inflight, snapshots,
          init_data, updates_log, main>>

-----------------------------------------------------------------------------
(* Bounds of the model *)

\* the longest list of segment records passed to _count_transfers
MaxSegments == 4

\* the most rows of a transit CSV file
MaxRows == 3

\* the longest requirement list a caller passes
MaxReqLen == 2

\* the number of update_accessibility calls in one behaviour
MaxUpdates == 2

\* the largest travel_time of a segment
MaxTravelTime == 3

\* the stops a network may hold, and a stop name no network holds
Stops == {"A", "B", "C"}

UnknownStop == "Z"

StopNames == Stops \cup {UnknownStop}

-----------------------------------------------------------------------------
(* Python values *)

None == << >>

EmptyDict == [k \in {} |-> TRUE]

\* dict.get(k, default)
Get(d, k, default) == IF k \in DOMAIN d THEN d[k] ELSE default

\* d[k] = v on a copy of d
Put(d, k, v) == [x \in DOMAIN d \cup {k} |-> IF x = k THEN v ELSE d[x]]

-----------------------------------------------------------------------------
(* accessibility.py: the requirement checkers *)

_check_wheelchair_accessible(stop_data) ==
    Get(stop_data, "wheelchair_accessible", FALSE)

_check_no_stairs(stop_data) ==
    LET has_stairs == Get(stop_data, "has_stairs", TRUE)
        has_alternative == Get(stop_data, "has_elevator", FALSE)
                           \/ Get(stop_data, "has_ramp", FALSE)
    IN  ~has_stairs \/ has_alternative

\* a checker that takes the elevator as out of order when elevator_working
\* is absent
_check_working_elevator_strict(stop_data) ==
    LET has_elevator == Get(stop_data, "has_elevator", FALSE)
        elevator_working == Get(stop_data, "elevator_working", FALSE)
    IN  has_elevator /\ elevator_working

_check_working_elevator(stop_data) ==
    LET has_elevator == Get(stop_data, "has_elevator", FALSE)
        elevator_working == Get(stop_data, "elevator_working", TRUE)
    IN  has_elevator /\ elevator_working

_check_low_floor_vehicle(stop_data) ==
    Get(stop_data, "low_floor_service", FALSE)

_check_audio_announcements(stop_data) ==
    Get(stop_data, "audio_announcements", FALSE)

_check_visual_displays(stop_data) ==
    Get(stop_data, "visual_displays", FALSE)

_check_tactile_guidance(stop_data) ==
    Get(stop_data, "tactile_guidance", FALSE)

_check_wide_doors(stop_data) ==
    Get(stop_data, "wide_doors", FALSE)

_check_level_boarding(stop_data) ==
    Get(stop_data, "level_boarding", FALSE)

\* the keys of AccessibilityFilter.requirement_checkers
requirement_checkers ==
    {"wheelchair_accessible", "no_stairs", "working_elevator",
     "low_floor_vehicle", "audio_announcements", "visual_displays",
     "tactile_guidance", "wide_doors", "level_boarding"}

\* self.requirement_checkers[requirement](stop_data)
RunChecker(requirement, stop_data) ==
    CASE requirement = "wheelchair_accessible" ->
            _check_wheelchair_accessible(stop_data)
      [] requirement = "no_stairs" -> _check_no_stairs(stop_data)
      [] requirement = "working_elevator" -> _check_working_elevator(stop_data)
      [] requirement = "low_floor_vehicle" ->
            _check_low_floor_vehicle(stop_data)
      [] requirement = "audio_announcements" ->
            _check_audio_announcements(stop_data)
      [] requirement = "visual_displays" -> _check_visual_displays(stop_data)
      [] requirement = "tactile_guidance" -> _check_tactile_guidance(stop_data)
      [] requirement = "wide_doors" -> _check_wide_doors(stop_data)
      [] requirement = "level_boarding" -> _check_level_boarding(stop_data)

\* meets_requirements with an unknown requirement skipped instead of failing
RECURSIVE MeetsFromSkipUnknown(_, _, _)
MeetsFromSkipUnknown(stop_data, requirements, i) ==
    IF i > Len(requirements) THEN TRUE
    ELSE IF requirements[i] \in requirement_checkers
         THEN IF ~RunChecker(requirements[i], stop_data) THEN FALSE
              ELSE MeetsFromSkipUnknown(stop_data, requirements, i + 1)
         ELSE MeetsFromSkipUnknown(stop_data, requirements, i + 1)

\* the loop of meets_requirements from position i of the list on
RECURSIVE MeetsFrom(_, _, _)
MeetsFrom(stop_data, requirements, i) ==
    IF i > Len(requirements) THEN TRUE
    ELSE IF requirements[i] \in requirement_checkers
         THEN IF ~RunChecker(requirements[i], stop_data) THEN FALSE
              ELSE MeetsFrom(stop_data, requirements, i + 1)
         ELSE FALSE   \* unknown requirement: assume not met

\* meets_requirements returning True as soon as one requirement is met
meets_requirements_any(data, stop, requirements) ==
    \E i \in 1..Len(requirements) :
        /\ requirements[i] \in requirement_checkers
        /\ RunChecker(requirements[i], Get(data, stop, EmptyDict))

\* AccessibilityFilter.meets_requirements over the accessibility map `data`
meets_requirements(data, stop, requirements) ==
    MeetsFrom(Get(data, stop, EmptyDict), requirements, 1)

\* an edge-specific loop that also asks a segment to have no stairs when
\* 'no_stairs' is required
RECURSIVE EdgeFlagsFromWithStairs(_, _, _)
EdgeFlagsFromWithStairs(edge_data, requirements, i) ==
    IF i > Len(requirements) THEN TRUE
    ELSE IF requirements[i] = "wheelchair_accessible"
              /\ ~Get(edge_data, "wheelchair_accessible", FALSE) THEN FALSE
    ELSE IF requirements[i] = "low_floor_vehicle"
              /\ ~Get(edge_data, "low_floor", FALSE) THEN FALSE
    ELSE IF requirements[i] = "wide_doors"
              /\ ~Get(edge_data, "wide_doors", FALSE) THEN FALSE
    ELSE IF requirements[i] = "no_stairs"
              /\ Get(edge_data, "has_stairs", TRUE) THEN FALSE
    ELSE EdgeFlagsFromWithStairs(edge_data, requirements, i + 1)

\* the edge-specific loop of edge_meets_requirements from position i on
RECURSIVE EdgeFlagsFrom(_, _, _)
EdgeFlagsFrom(edge_data, requirements, i) ==
    IF i > Len(requirements) THEN TRUE
    ELSE IF requirements[i] = "wheelchair_accessible"
              /\ ~Get(edge_data, "wheelchair_accessible", FALSE) THEN FALSE
    ELSE IF requirements[i] = "low_floor_vehicle"
              /\ ~Get(edge_data, "low_floor", FALSE) THEN FALSE
    ELSE IF requirements[i] = "wide_doors"
              /\ ~Get(edge_data, "wide_doors", FALSE) THEN FALSE
    ELSE EdgeFlagsFrom(edge_data, requirements, i + 1)

\* AccessibilityFilter.edge_meets_requirements
edge_meets_requirements(data, from_stop, to_stop, edge_data, requirements) ==
    IF ~(meets_requirements(data, from_stop, requirements)
         /\ meets_requirements(data, to_stop, requirements))
    THEN FALSE
    ELSE EdgeFlagsFrom(edge_data, requirements, 1)

-----------------------------------------------------------------------------
(* Python floats.  A float between 0.0 and 2.0 is an IEEE 754 double; the  *)
(* double of value (hi * 2^30 + lo) * 2^-60 is the pair <<hi, lo>> with    *)
(* lo < 2^30.  Every double from 0.05 up is a whole number of 2^-60.       *)

FloatBase == 2^30

\* the float literals of accessibility.py
Float_0_0 == <<0, 0>>

Float_0_05 == <<53687091, 214748368>>

Float_0_1 == <<107374182, 429496736>>

Float_0_15 == <<161061273, 644245088>>

Float_0_2 == <<214748364, 858993472>>

Float_0_25 == <<268435456, 0>>

Float_0_4 == <<429496729, 644245120>>

Float_0_6 == <<644245094, 429496704>>

Float_0_8 == <<858993459, 214748416>>

Float_1_0 == <<FloatBase, 0>>

\* the gap between a double and the next one, in units of 2^-60, for a
\* double whose first component is hi: 53 significant bits
Ulp(hi) ==
    IF hi >= 2^30 THEN 2^8
    ELSE IF hi >= 2^29 THEN 2^7
    ELSE IF hi >= 2^28 THEN 2^6
    ELSE IF hi >= 2^27 THEN 2^5
    ELSE IF hi >= 2^26 THEN 2^4
    ELSE IF hi >= 2^25 THEN 2^3
    ELSE 1

\* a + b: the exact sum rounded to the nearest double, a tie to the even one
FloatAdd(a, b) ==
    LET hi == a[1] + b[1] + (a[2] + b[2]) \div FloatBase
        lo == (a[2] + b[2]) % FloatBase
        u == Ulp(hi)
        r == lo % u
        down == lo - r
        up == 2 * r > u \/ (2 * r = u /\ (down \div u) % 2 = 1)
        rounded == IF up THEN down + u ELSE down
    IN  IF rounded = FloatBase THEN <<hi + 1, 0>> ELSE <<hi, rounded>>

\* a >= b
FloatGE(a, b) == a[1] > b[1] \/ (a[1] = b[1] /\ a[2] >= b[2])

\* min(a, b)
FloatMin(a, b) == IF FloatGE(a, b) THEN b ELSE a

-----------------------------------------------------------------------------
(* accessibility.py: score, summary, validation *)

\* the features dict of get_accessibility_score, in its insertion order
features ==
    <<[feature |-> "wheelchair_accessible", weight |-> Float_0_25],
      [feature |-> "has_elevator", weight |-> Float_0_15],
      [feature |-> "elevator_working", weight |-> Float_0_1],
      [feature |-> "has_ramp", weight |-> Float_0_1],
      [feature |-> "audio_announcements", weight |-> Float_0_1],
      [feature |-> "visual_displays", weight |-> Float_0_1],
      [feature |-> "tactile_guidance", weight |-> Float_0_05],
      [feature |-> "wide_doors", weight |-> Float_0_05],
      [feature |-> "level_boarding", weight |-> Float_0_05],
      [feature |-> "low_floor_service", weight |-> Float_0_05]>>

\* the loop of get_accessibility_score from feature i on
RECURSIVE ScoreFrom(_, _, _)
ScoreFrom(stop_data, i, score) ==
    IF i > Len(features) THEN score
    ELSE ScoreFrom(stop_data, i + 1,
                   IF Get(stop_data, features[i].feature, FALSE)
                   THEN FloatAdd(score, features[i].weight) ELSE score)

\* AccessibilityFilter.get_accessibility_score
get_accessibility_score(data, stop) ==
    FloatMin(ScoreFrom(Get(data, stop, EmptyDict), 1, Float_0_0), Float_1_0)

\* the level of get_accessibility_summary with > in place of >=
AccessibilityLevelStrict(score) ==
    IF ~FloatGE(Float_0_8, score) THEN "Excellent"
    ELSE IF ~FloatGE(Float_0_6, score) THEN "Good"
    ELSE IF ~FloatGE(Float_0_4, score) THEN "Fair"
    ELSE IF ~FloatGE(Float_0_2, score) THEN "Limited"
    ELSE "Poor"

\* get_accessibility_summary: the level of a score
AccessibilityLevel(score) ==
    IF FloatGE(score, Float_0_8) THEN "Excellent"
    ELSE IF FloatGE(score, Float_0_6) THEN "Good"
    ELSE IF FloatGE(score, Float_0_4) THEN "Fair"
    ELSE IF FloatGE(score, Float_0_2) THEN "Limited"
    ELSE "Poor"

\* get_accessibility_summary: the recommendations
Recommendations(stop_data) ==
    (IF ~Get(stop_data, "wheelchair_accessible", FALSE)
     THEN <<"Add wheelchair accessibility">> ELSE << >>)
    \o (IF ~Get(stop_data, "has_elevator", FALSE)
           /\ Get(stop_data, "has_stairs", TRUE)
        THEN <<"Install elevator or ramp">> ELSE << >>)
    \o (IF ~Get(stop_data, "audio_announcements", FALSE)
        THEN <<"Add audio announcements for visually impaired">> ELSE << >>)
    \o (IF ~Get(stop_data, "visual_displays", FALSE)
        THEN <<"Install visual displays for hearing impaired">> ELSE << >>)

\* AccessibilityFilter.get_accessibility_summary
get_accessibility_summary(data, stop) ==
    LET stop_data == Get(data, stop, EmptyDict)
        score == get_accessibility_score(data, stop)
    IN  [stop |-> stop,
         accessibility_score |-> score,
         accessibility_level |-> AccessibilityLevel(score),
         features |-> stop_data,
         recommendations |-> Recommendations(stop_data)]

\* AccessibilityFilter.get_supported_requirements, as the set of its items
get_supported_requirements == requirement_checkers

\* a loop that appends a requirement to its list only the first time
RECURSIVE ValidateFromOnce(_, _, _, _)
ValidateFromOnce(requirements, i, valid_requirements, invalid_requirements) ==
    IF i > Len(requirements)
    THEN [valid |-> valid_requirements, invalid |-> invalid_requirements]
    ELSE LET req == requirements[i]
             seen == \E k \in 1..(i - 1) : requirements[k] = req
         IN  IF seen
             THEN ValidateFromOnce(requirements, i + 1, valid_requirements,
                                   invalid_requirements)
             ELSE IF req \in get_supported_requirements
             THEN ValidateFromOnce(requirements, i + 1,
                                   Append(valid_requirements, req),
                                   invalid_requirements)
             ELSE ValidateFromOnce(requirements, i + 1, valid_requirements,
                                   Append(invalid_requirements, req))

\* the loop of validate_requirements from position i on
RECURSIVE ValidateFrom(_, _, _, _)
ValidateFrom(requirements, i, valid_requirements, invalid_requirements) ==
    IF i > Len(requirements)
    THEN [valid |-> valid_requirements, invalid |-> invalid_requirements]
    ELSE IF requirements[i] \in get_supported_requirements
    THEN ValidateFrom(requirements, i + 1,
                      Append(valid_requirements, requirements[i]),
                      invalid_requirements)
    ELSE ValidateFrom(requirements, i + 1, valid_requirements,
                      Append(invalid_requirements, requirements[i]))

\* AccessibilityFilter.validate_requirements
validate_requirements(requirements) ==
    LET lists == ValidateFrom(requirements, 1, << >>, << >>)
    IN  [valid |-> lists.valid,
         invalid |-> lists.invalid,
         all_valid |-> Len(lists.invalid) = 0]

-----------------------------------------------------------------------------
(* networkx: Graph *)

\* the two ends of the undirected edge e
EndA(e) == CHOOSE u \in e : TRUE

EndB(e) == CHOOSE v \in e : v # EndA(e)

\* Graph.remove_nodes_from: a removed node takes its edges with it
remove_nodes_from(g, nodes_to_remove) ==
    [g EXCEPT
        !.nodes = g.nodes \ nodes_to_remove,
        !.edges = [e \in {x \in DOMAIN g.edges : x \cap nodes_to_remove = {}}
                      |-> g.edges[e]]]

\* Graph.remove_edges_from
remove_edges_from(g, edges_to_remove) ==
    [g EXCEPT
        !.edges = [e \in DOMAIN g.edges \ edges_to_remove |-> g.edges[e]]]

\* Graph.get_edge_data(u, v, default)
get_edge_data(g, u, v, default) ==
    IF {u, v} \in DOMAIN g.edges THEN g.edges[{u, v}] ELSE default

\* accessible_graph = self.graph, the same object under a second name
copy_alias(graphs, ref) == [graphs |-> graphs, ref |-> ref]

\* Graph.copy() among the graph objects graphs (object id -> graph): a new
\* object with the nodes, the edges and the attribute dicts of graphs[ref]
copy(graphs, ref) ==
    LET fresh == Cardinality(DOMAIN graphs) + 1
    IN  [graphs |-> (fresh :> graphs[ref]) @@ graphs, ref |-> fresh]

\* the weight of a search called without weight='travel_time'
WeightUnit(edge_data) == 1

\* the weight function networkx builds for weight='travel_time'
Weight(edge_data) == Get(edge_data, "travel_time", 1)

-----------------------------------------------------------------------------
(* networkx: Dijkstra's algorithm, as called with weight='travel_time' *)

\* dist maps the stops seen so far to their tentative distance; a stop in
\* done has its final distance.
RECURSIVE DijkstraLoop(_, _, _)
DijkstraLoop(g, dist, done) ==
    LET fringe == DOMAIN dist \ done
    IN  IF fringe = {} THEN dist
        ELSE LET v == CHOOSE x \in fringe :
                          \A y \in fringe : dist[x] <= dist[y]
                 nbrs == {w \in g.nodes \ done : {v, w} \in DOMAIN g.edges}
                 vw(w) == dist[v] + Weight(g.edges[{v, w}])
                 relaxed == [w \in DOMAIN dist \cup nbrs |->
                               IF w \in nbrs
                               THEN IF w \in DOMAIN dist /\ dist[w] <= vw(w)
                                    THEN dist[w] ELSE vw(w)
                               ELSE dist[w]]
             IN  DijkstraLoop(g, relaxed, done \cup {v})

\* the final distance of every stop reachable from source
Dijkstra(g, source) ==
    DijkstraLoop(g, [s \in {source} |-> 0], {})

\* The paths Dijkstra's predecessor links can spell from source to target:
\* each step u -> w has dist[w] = dist[u] + weight(u, w).  Which of them is
\* returned depends on the iteration order of the graph's dicts.
RECURSIVE PathsTo(_, _, _, _)
PathsTo(g, dist, source, target) ==
    IF target = source THEN {<<source>>}
    ELSE LET preds == {u \in DOMAIN dist :
                          /\ {u, target} \in DOMAIN g.edges
                          /\ u # target
                          /\ dist[u] + Weight(g.edges[{u, target}])
                                 = dist[target]}
         IN  UNION {{Append(p, target) : p \in PathsTo(g, dist, source, u)}
                        : u \in preds}

\* a call either returns a value or raises an exception
Return(v) == [raises |-> FALSE, value |-> v]

Raise(exc) == [raises |-> TRUE, exception |-> exc]

-----------------------------------------------------------------------------
(* networkx: the two searches step by step, for a graph that holds a       *)
(* weight that is not positive.  The heap holds <<distance, count, stop>>  *)
(* and pops the least.  Such a graph comes from the loader and carries     *)
(* g.adj, the neighbours of every stop in the order their segments were    *)
(* added, which is the iteration order of the adjacency dicts.             *)

\* G._adj[v], in iteration order
Neighbours(g, v) ==
    SelectSeq(g.adj[v], LAMBDA w : {v, w} \in DOMAIN g.edges)

\* heappop
PopMin(fringe) ==
    CHOOSE x \in fringe :
        \A y \in fringe : x[1] < y[1] \/ (x[1] = y[1] /\ x[2] <= y[2])

HasNonPositiveWeight(g) ==
    \E e \in DOMAIN g.edges : Weight(g.edges[e]) <= 0

\* _dijkstra_multisource: the loop over the neighbours of the popped stop v
RECURSIVE DijkstraRelax(_, _, _, _, _)
DijkstraRelax(g, st, v, nbrs, i) ==
    IF i > Len(nbrs) THEN st
    ELSE LET u == nbrs[i]
             vu_dist == st.dist[v] + Weight(g.edges[{v, u}])
         IN  IF u \in DOMAIN st.dist
             THEN IF vu_dist < st.dist[u]
                  THEN [st EXCEPT !.raised = TRUE]   \* Contradictory paths
                  ELSE DijkstraRelax(g, st, v, nbrs, i + 1)
             ELSE IF u \notin DOMAIN st.seen \/ vu_dist < st.seen[u]
             THEN DijkstraRelax(g,
                                [st EXCEPT
                                    !.seen = Put(@, u, vu_dist),
                                    !.fringe = @ \cup {<<vu_dist, st.c, u>>},
                                    !.c = @ + 1],
                                v, nbrs, i + 1)
             ELSE DijkstraRelax(g, st, v, nbrs, i + 1)

\* _dijkstra_multisource: the while loop, left at the target
RECURSIVE DijkstraSearch(_, _, _)
DijkstraSearch(g, st, target) ==
    IF st.fringe = {} THEN st
    ELSE LET top == PopMin(st.fringe)
             v == top[3]
             popped == [st EXCEPT !.fringe = @ \ {top}]
         IN  IF v \in DOMAIN st.dist
             THEN DijkstraSearch(g, popped, target)
             ELSE LET reached == [popped EXCEPT !.dist = Put(@, v, top[1])]
                      relaxed == DijkstraRelax(g, reached, v,
                                               Neighbours(g, v), 1)
                  IN  IF v = target THEN reached
                      ELSE IF relaxed.raised THEN relaxed
                      ELSE DijkstraSearch(g, relaxed, target)

\* nx.dijkstra_path_length for source # target, both in g
dijkstra_path_length(g, source, target) ==
    LET st == DijkstraSearch(g,
                             [dist |-> EmptyDict,
                              seen |-> [s \in {source} |-> 0],
                              fringe |-> {<<0, 0, source>>},
                              c |-> 1,
                              raised |-> FALSE],
                             target)
    IN  IF st.raised THEN Raise("ValueError")
        ELSE IF target \notin DOMAIN st.dist THEN Raise("NetworkXNoPath")
        ELSE Return(st.dist[target])

\* the reverse of a list
Reverse(seq) == [i \in 1..Len(seq) |-> seq[Len(seq) + 1 - i]]

\* bidirectional_dijkstra: the loop over the neighbours of the stop v popped
\* in direction dir (1 forward, 2 backward)
RECURSIVE BidirectionalRelax(_, _, _, _, _, _)
BidirectionalRelax(g, st, dir, v, nbrs, i) ==
    IF i > Len(nbrs) THEN st
    ELSE LET w == nbrs[i]
             vwLength == st.dists[dir][v] + Weight(g.edges[{v, w}])
         IN  IF w \in DOMAIN st.dists[dir]
             THEN IF vwLength < st.dists[dir][w]
                  THEN [st EXCEPT !.raised = TRUE]   \* Contradictory paths
                  ELSE BidirectionalRelax(g, st, dir, v, nbrs, i + 1)
             ELSE IF w \notin DOMAIN st.seen[dir] \/ vwLength < st.seen[dir][w]
             THEN LET pushed ==
                          [st EXCEPT
                              !.seen[dir] = Put(@, w, vwLength),
                              !.fringe[dir] = @ \cup {<<vwLength, st.c, w>>},
                              !.c = @ + 1,
                              !.paths[dir] =
                                  Put(@, w, Append(st.paths[dir][v], w))]
                      both == w \in DOMAIN pushed.seen[1]
                              /\ w \in DOMAIN pushed.seen[2]
                      totaldist == pushed.seen[1][w] + pushed.seen[2][w]
                      met == IF both /\ (pushed.finalpath = << >>
                                         \/ pushed.finaldist > totaldist)
                             THEN [pushed EXCEPT
                                      !.finaldist = totaldist,
                                      !.finalpath =
                                          pushed.paths[1][w]
                                          \o Tail(Reverse(pushed.paths[2][w]))]
                             ELSE pushed
                  IN  BidirectionalRelax(g, met, dir, v, nbrs, i + 1)
             ELSE BidirectionalRelax(g, st, dir, v, nbrs, i + 1)

\* bidirectional_dijkstra: the while loop; st.dir is the direction of the
\* iteration before
RECURSIVE BidirectionalSearch(_, _)
BidirectionalSearch(g, st) ==
    IF st.fringe[1] = {} \/ st.fringe[2] = {}
    THEN Raise("NetworkXNoPath")
    ELSE LET dir == 3 - st.dir
             top == PopMin(st.fringe[dir])
             v == top[3]
             popped == [st EXCEPT !.fringe[dir] = @ \ {top}, !.dir = dir]
         IN  IF v \in DOMAIN st.dists[dir]
             THEN BidirectionalSearch(g, popped)
             ELSE LET reached ==
                          [popped EXCEPT !.dists[dir] = Put(@, v, top[1])]
                      relaxed == BidirectionalRelax(g, reached, dir, v,
                                                    Neighbours(g, v), 1)
                  IN  IF v \in DOMAIN reached.dists[3 - dir]
                      THEN Return(reached.finalpath)
                      ELSE IF relaxed.raised THEN Raise("ValueError")
                      ELSE BidirectionalSearch(g, relaxed)

\* nx.bidirectional_dijkstra for source # target, both in g: the path
bidirectional_dijkstra(g, source, target) ==
    BidirectionalSearch(g,
                        [dists |-> <<EmptyDict, EmptyDict>>,
                         paths |-> <<[s \in {source} |-> <<source>>],
                                     [s \in {target} |-> <<target>>]>>,
                         fringe |-> <<{<<0, 0, source>>}, {<<0, 1, target>>}>>,
                         seen |-> <<[s \in {source} |-> 0],
                                    [s \in {target} |-> 0]>>,
                         c |-> 2,
                         finaldist |-> 0,
                         finalpath |-> << >>,
                         raised |-> FALSE,
                         dir |-> 2])

\* a shortest_path that looks up the source only, so that a target outside
\* the graph is reported as unreachable
shortest_path_source_only(g, source, target) ==
    IF source \notin g.nodes THEN {Raise("NodeNotFound")}
    ELSE IF source = target THEN {Return(<<source>>)}
    ELSE LET dist == Dijkstra(g, source)
         IN  IF target \notin DOMAIN dist THEN {Raise("NetworkXNoPath")}
             ELSE {Return(p) : p \in PathsTo(g, dist, source, target)}

\* nx.shortest_path(g, source, target, weight='travel_time'): the outcomes
\* the call may have
shortest_path(g, source, target) ==
    IF source \notin g.nodes \/ target \notin g.nodes
    THEN {Raise("NodeNotFound")}
    ELSE IF source = target THEN {Return(<<source>>)}
    ELSE IF HasNonPositiveWeight(g)
    THEN {bidirectional_dijkstra(g, source, target)}
    ELSE LET dist == Dijkstra(g, source)
         IN  IF target \notin DOMAIN dist THEN {Raise("NetworkXNoPath")}
             ELSE {Return(p) : p \in PathsTo(g, dist, source, target)}

\* nx.shortest_path_length(g, source, target, weight='travel_time')
shortest_path_length(g, source, target) ==
    IF source \notin g.nodes THEN Raise("NodeNotFound")
    ELSE IF source = target THEN Return(0)
    ELSE IF HasNonPositiveWeight(g)
    THEN dijkstra_path_length(g, source, target)
    ELSE LET dist == Dijkstra(g, source)
         IN  IF target \notin DOMAIN dist THEN Raise("NetworkXNoPath")
             ELSE Return(dist[target])

-----------------------------------------------------------------------------
(* routing_engine.py: AccessibleRouter *)

\* a first loop that also drops the stops that have no segment
nodes_to_remove_isolated(g, fdata, requirements) ==
    {node \in g.nodes :
        \/ ~meets_requirements(fdata, node, requirements)
        \/ \A e \in DOMAIN g.edges : node \notin e}

\* _create_accessible_graph, the first loop: the nodes that do not meet the
\* requirements under the filter's accessibility map fdata
nodes_to_remove(g, fdata, requirements) ==
    {node \in g.nodes : ~meets_requirements(fdata, node, requirements)}

\* the second loop of _create_accessible_graph left out
edges_to_remove_none(g, fdata, requirements) == {}

\* _create_accessible_graph, the second loop, over the edges that are left
edges_to_remove(g, fdata, requirements) ==
    {e \in DOMAIN g.edges :
        ~edge_meets_requirements(fdata, EndA(e), EndB(e), g.edges[e],
                                 requirements)}

\* _create_accessible_graph returning after remove_nodes_from
_create_accessible_graph_nodes_only(g, fdata, requirements) ==
    remove_nodes_from(g, nodes_to_remove(g, fdata, requirements))

_create_accessible_graph(g, fdata, requirements) ==
    LET without_nodes ==
            remove_nodes_from(g, nodes_to_remove(g, fdata, requirements))
    IN  remove_edges_from(without_nodes,
                          edges_to_remove(without_nodes, fdata, requirements))

\* self.graph after _create_accessible_graph has run: the two removals act
\* on the object that self.graph.copy() returned, self.graph is object 1
GraphAfterFilter(g, fdata, requirements) ==
    LET copied == copy([o \in {1} |-> g], 1)
        filtered == _create_accessible_graph(copied.graphs[copied.ref],
                                             fdata, requirements)
        after == [copied.graphs EXCEPT ![copied.ref] = filtered]
    IN  after[1]

\* the accessibility notes of one segment, before "; ".join
AccessibilityNotes(edge_data, rdata, from_stop) ==
    (IF Get(edge_data, "wheelchair_accessible", FALSE)
     THEN <<"Wheelchair accessible">> ELSE << >>)
    \o (IF Get(edge_data, "has_elevator", FALSE)
           /\ Get(Get(rdata, from_stop, EmptyDict), "elevator_working", TRUE)
        THEN <<"Elevator available">> ELSE << >>)
    \o (IF ~Get(edge_data, "has_stairs", TRUE)
        THEN <<"No stairs">> ELSE << >>)

\* one record of _build_route_details, for path[i] -> path[i + 1]
Segment(g, rdata, path, i, include_accessibility) ==
    LET from_stop == path[i]
        to_stop == path[i + 1]
        edge_data == get_edge_data(g, from_stop, to_stop, EmptyDict)
        segment == [from |-> from_stop,
                    to |-> to_stop,
                    route |-> Get(edge_data, "route_id", "Unknown"),
                    time |-> Get(edge_data, "travel_time", 0)]
        accessibility_notes == AccessibilityNotes(edge_data, rdata, from_stop)
    IN  IF include_accessibility /\ accessibility_notes # << >>
        THEN [from |-> segment.from, to |-> segment.to,
              route |-> segment.route, time |-> segment.time,
              accessibility_notes |-> accessibility_notes]
        ELSE segment

\* _build_route_details: the edge data is read from the router's own graph
_build_route_details(g, rdata, path, include_accessibility) ==
    [i \in 1..(Len(path) - 1) |->
        Segment(g, rdata, path, i, include_accessibility)]

\* a loop that counts the segments whose route is not the first segment's
\* route
CountFromFirst(details, i, current_route, transfers) ==
    Cardinality({k \in 1..Len(details) :
                    details[k].route # details[1].route})

\* the loop of _count_transfers from segment i on; current_route is << >>
\* for None and <<route>> otherwise
RECURSIVE CountFrom(_, _, _, _)
CountFrom(details, i, current_route, transfers) ==
    IF i > Len(details) THEN transfers
    ELSE LET route == details[i].route
         IN  CountFrom(details, i + 1, <<route>>,
                       IF current_route # None /\ route # current_route[1]
                       THEN transfers + 1 ELSE transfers)

_count_transfers(details) ==
    IF Len(details) <= 1 THEN 0
    ELSE CountFrom(details, 1, None, 0)

\* The try block of find_path, given the outcome sp of nx.shortest_path.
FindPathTry(g, rdata, start, end, sp) ==
    IF sp.raises THEN sp
    ELSE LET path == sp.value
             total_time == shortest_path_length(g, start, end)
         IN  IF total_time.raises THEN total_time
             ELSE LET details == _build_route_details(g, rdata, path, FALSE)
                      transfers == _count_transfers(details)
                  IN  Return([path |-> path,
                              total_time |-> total_time.value,
                              transfers |-> transfers,
                              details |-> details,
                              accessible |-> FALSE])

\* find_path without its except nx.NodeNotFound clause
FindPathExceptNoPathOnly(outcome) ==
    IF ~outcome.raises THEN outcome
    ELSE IF outcome.exception = "NetworkXNoPath"
    THEN Return([path |-> None, message |-> "No route found"])
    ELSE outcome

\* the except clauses of find_path; any other exception propagates
FindPathExcept(outcome) ==
    IF ~outcome.raises THEN outcome
    ELSE IF outcome.exception = "NetworkXNoPath"
    THEN Return([path |-> None, message |-> "No route found"])
    ELSE IF outcome.exception = "NodeNotFound"
    THEN Return([path |-> None, message |-> "Stop not found"])
    ELSE outcome

\* AccessibleRouter.find_path: the outcomes the call may have
find_path(g, rdata, start, end) ==
    {FindPathExcept(FindPathTry(g, rdata, start, end, sp)) :
        sp \in shortest_path(g, start, end)}

\* the try block of find_accessible_path with the length of the path taken
\* without weight='travel_time': the number of its segments
FindAccessiblePathTryHops(g, rdata, accessible_graph, start, end, requirements, sp) ==
    IF sp.raises THEN sp
    ELSE LET path == sp.value
             details == _build_route_details(g, rdata, path, TRUE)
         IN  Return([path |-> path,
                     total_time |-> Len(path) - 1,
                     transfers |-> _count_transfers(details),
                     details |-> details,
                     accessible |-> TRUE,
                     requirements_met |-> requirements])

\* The try block of find_accessible_path from the membership test on, over
\* the filtered graph, given the outcome sp of nx.shortest_path on it.
FindAccessiblePathTry(g, rdata, accessible_graph, start, end, requirements, sp) ==
    IF sp.raises THEN sp
    ELSE LET path == sp.value
             total_time == shortest_path_length(accessible_graph, start, end)
         IN  IF total_time.raises THEN total_time
             ELSE LET details == _build_route_details(g, rdata, path, TRUE)
                      transfers == _count_transfers(details)
                  IN  Return([path |-> path,
                              total_time |-> total_time.value,
                              transfers |-> transfers,
                              details |-> details,
                              accessible |-> TRUE,
                              requirements_met |-> requirements])

\* the except clauses of find_accessible_path
FindAccessiblePathExcept(outcome) ==
    IF ~outcome.raises THEN outcome
    ELSE IF outcome.exception = "NetworkXNoPath"
    THEN Return([path |-> None, message |-> "No accessible route found"])
    ELSE IF outcome.exception = "NodeNotFound"
    THEN Return([path |-> None, message |-> "Stop not found"])
    ELSE outcome

\* find_accessible_path without the test that start and end are left
FindAccessiblePathOnUntested(g, rdata, accessible_graph, start, end, requirements) ==
    {FindAccessiblePathExcept(
         FindAccessiblePathTry(g, rdata, accessible_graph, start, end,
                               requirements, sp)) :
       sp \in shortest_path(accessible_graph, start, end)}

\* find_accessible_path once the filtered graph is built
FindAccessiblePathOn(g, rdata, accessible_graph, start, end, requirements) ==
    IF start \notin accessible_graph.nodes \/ end \notin accessible_graph.nodes
    THEN {Return([path |-> None,
                  message |-> "Start or end stop not accessible"])}
    ELSE {FindAccessiblePathExcept(
              FindAccessiblePathTry(g, rdata, accessible_graph, start, end,
                                    requirements, sp)) :
            sp \in shortest_path(accessible_graph, start, end)}

\* AccessibleRouter.find_accessible_path, run without interruption
find_accessible_path(g, rdata, fdata, start, end, requirements) ==
    FindAccessiblePathOn(g, rdata,
                         _create_accessible_graph(g, fdata, requirements),
                         start, end, requirements)

\* AccessibleRouter.get_accessible_stops, as the set of the stops listed
get_accessible_stops(g, fdata, requirements) ==
    {stop \in g.nodes : meets_requirements(fdata, stop, requirements)}

\* AccessibleRouter.get_accessibility_info
get_accessibility_info(rdata, stop) == Get(rdata, stop, EmptyDict)

\* a dict replaced by the other instead of updated with it
DictReplace(d, other) == other

\* dict.update
DictUpdate(d, other) ==
    [k \in DOMAIN d \cup DOMAIN other |->
        IF k \in DOMAIN other THEN other[k] ELSE d[k]]

\* update_accessibility on the dict the router refers to: the accessibility
\* map after the call (the dict is changed in place)
update_accessibility(rdata, stop, accessibility_updates) ==
    LET with_stop == IF stop \notin DOMAIN rdata
                     THEN Put(rdata, stop, EmptyDict) ELSE rdata
    IN  Put(with_stop, stop, DictUpdate(with_stop[stop], accessibility_updates))

-----------------------------------------------------------------------------
(* data_loader.py: DataLoader.  A CSV file is [columns, rows]; a cell is   *)
(* the text read from the file.                                            *)

\* float(cell) of a travel_time cell
ParseFloat(cell) ==
    CASE cell = "-1" -> Return(-1)
      [] cell = "0" -> Return(0)
      [] cell = "1" -> Return(1)
      [] cell = "2" -> Return(2)
      [] OTHER -> Raise("ValueError")

\* nx.Graph()
EmptyGraph ==
    [nodes |-> {}, edges |-> EmptyDict, adj |-> EmptyDict]

\* Graph.add_edge(u, v, **attr): a new neighbour goes to the end of the
\* adjacency of each end, a segment already there has its attributes updated
add_edge(g, u, v, attr) ==
    LET adj_u == Get(g.adj, u, << >>)
        adj_v == Get(g.adj, v, << >>)
        known == {u, v} \in DOMAIN g.edges
        old == IF known THEN g.edges[{u, v}] ELSE EmptyDict
    IN  [nodes |-> g.nodes \cup {u, v},
         edges |-> Put(g.edges, {u, v},
                       [k \in DOMAIN old \cup DOMAIN attr |->
                           IF k \in DOMAIN attr THEN attr[k] ELSE old[k]]),
         adj |-> IF known THEN g.adj
                 ELSE Put(Put(g.adj, u, Append(adj_u, v)), v,
                          Append(adj_v, u))]

\* load_transit_csv: the loop over the rows, from row i on; a row without
\* the optional columns gets their defaults
RECURSIVE LoadRowsFrom(_, _, _)
LoadRowsFrom(rows, i, g) ==
    IF i > Len(rows) THEN Return(g)
    ELSE LET row == rows[i]
             travel_time == ParseFloat(row.travel_time)
         IN  IF travel_time.raises THEN travel_time
             ELSE LoadRowsFrom(rows, i + 1,
                      add_edge(g, row.from_stop, row.to_stop,
                               [travel_time |-> travel_time.value,
                                route_id |-> "unknown",
                                wheelchair_accessible |-> FALSE,
                                has_elevator |-> FALSE,
                                has_stairs |-> TRUE,
                                low_floor |-> FALSE,
                                wide_doors |-> FALSE]))

\* DataLoader.load_transit_csv: any exception leaves as a ValueError
load_transit_csv(file) ==
    IF ~({"from_stop", "to_stop", "travel_time"} \subseteq file.columns)
    THEN Raise("ValueError")
    ELSE LoadRowsFrom(file.rows, 1, EmptyGraph)

\* DataLoader._normalize_accessibility_data, for boolean values
_normalize_accessibility_data(stop_data) ==
    [field \in DOMAIN stop_data \cap
         {"wheelchair_accessible", "has_elevator", "has_stairs", "has_ramp",
          "elevator_working", "audio_announcements", "visual_displays",
          "tactile_guidance", "wide_doors", "level_boarding",
          "low_floor_service"} |-> stop_data[field]]

\* DataLoader.load_accessibility_json: a missing file is an empty map
load_accessibility_json(file) ==
    IF ~file.exists THEN Return(EmptyDict)
    ELSE Return([stop_name \in DOMAIN file.content |->
                    _normalize_accessibility_data(file.content[stop_name])])

-----------------------------------------------------------------------------
(* main.py *)

\* main: the requirements built from the command-line flags
MainRequirements(args) ==
    (IF args.accessible_only \/ args.wheelchair
     THEN <<"wheelchair_accessible">> ELSE << >>)
    \o (IF args.avoid_stairs THEN <<"no_stairs">> ELSE << >>)
    \o (IF args.elevator_required THEN <<"working_elevator">> ELSE << >>)

-----------------------------------------------------------------------------
(* The inputs: networks, accessibility maps, requirement lists *)

\* the segments a network over Stops may hold
Pairs == {e \in SUBSET Stops : Cardinality(e) = 2}

\* the networks whose segments carry attribute dicts of edge_dicts; a stop
\* may have no segment
NetworksOver(edge_dicts) ==
    UNION {UNION {{[nodes |-> n, edges |-> f] :
                      n \in {x \in SUBSET Stops : UNION E \subseteq x}} :
                  f \in [E -> edge_dicts]} :
           E \in SUBSET Pairs}

\* the accessibility maps that give some stops a profile of profiles
AccessibilityMapsOver(stops, profiles) ==
    UNION {[D -> profiles] : D \in SUBSET stops}

\* the segments of the query specification
QueryEdgeDicts ==
    {[travel_time |-> t, route_id |-> "1", wheelchair_accessible |-> w] :
        t \in 1..MaxTravelTime, w \in BOOLEAN}

\* the profiles of the query specification
QueryProfiles == {[wheelchair_accessible |-> TRUE]}

\* the requirement tokens callers pass: one recognized, one not
Tokens == {"wheelchair_accessible", "teleportation"}

RequirementLists == UNION {[1..n -> Tokens] : n \in 0..MaxReqLen}

\* the segments of the update specifications: every flag set
UpdateEdgeDicts ==
    {[travel_time |-> 1, route_id |-> "1", wheelchair_accessible |-> TRUE]}

\* the networks of the update specifications: every stop is a node
UpdateNetworks == {g \in NetworksOver(UpdateEdgeDicts) : g.nodes = Stops}

\* the accessibility maps a router of the update specifications starts with
UpdateInitMaps ==
    {EmptyDict,
     [s \in Stops |-> [wheelchair_accessible |-> TRUE, has_elevator |-> TRUE]]}

\* the keyword arguments of update_accessibility
UpdateChanges ==
    {[wheelchair_accessible |-> FALSE],
     [wheelchair_accessible |-> TRUE],
     [elevator_working |-> FALSE]}

\* the requirement lists queried in the update specifications
UpdateRequirementLists ==
    {<<"wheelchair_accessible">>, <<"working_elevator">>,
     <<"wheelchair_accessible", "working_elevator">>}

\* the stops of the filter specification
FilterStops == {"A", "B"}

\* the profile keys read with default False by one checker each
PlainKeys ==
    {"wheelchair_accessible", "low_floor_service", "audio_announcements",
     "visual_displays", "tactile_guidance", "wide_doors", "level_boarding"}

\* the stairs and elevator keys of a profile: absent, or set against the
\* defaults the checkers read them with
StairsAndElevator ==
    {EmptyDict,
     [has_stairs |-> FALSE],
     [has_ramp |-> TRUE],
     [has_elevator |-> TRUE],
     [has_elevator |-> TRUE, elevator_working |-> FALSE],
     [has_stairs |-> TRUE],
     [has_stairs |-> TRUE, has_ramp |-> FALSE],
     [has_elevator |-> FALSE, elevator_working |-> TRUE]}

\* the profiles of the filter specification: any plain keys set
FilterProfiles ==
    {plain @@ other :
        plain \in UNION {[K -> {TRUE}] : K \in SUBSET PlainKeys},
        other \in StairsAndElevator}

\* a profile with every key set in the stop's favour
FullProfile ==
    [k \in PlainKeys |-> TRUE] @@ [has_stairs |-> FALSE]
    @@ [has_elevator |-> TRUE] @@ [has_ramp |-> TRUE]
    @@ [elevator_working |-> TRUE]

\* the accessibility maps of the filter specification: A has any profile
\* or no entry, B has no entry or the full profile
FilterMaps ==
    {a @@ b : a \in {EmptyDict}
                     \cup {[s \in {"A"} |-> p] : p \in FilterProfiles},
              b \in {EmptyDict, [s \in {"B"} |-> FullProfile]}}

\* the requirement tokens of the filter specification: the nine recognized
\* names and one that is not
FilterTokens == requirement_checkers \cup {"teleportation"}

FilterRequirementLists ==
    UNION {[1..n -> FilterTokens] : n \in 0..MaxReqLen}

\* the ten features of get_accessibility_score
ScoreFeatures == {features[i].feature : i \in 1..Len(features)}

\* the profiles of the score specification: any of the ten features set to
\* True and the others absent; the elevator and wheelchair features set to
\* True or False and every other feature False; with or without has_stairs
ScoreProfiles ==
    {p @@ stairs :
        p \in UNION {[K -> {TRUE}] : K \in SUBSET ScoreFeatures}
               \cup {[f \in ScoreFeatures |-> f \in K] :
                        K \in SUBSET {"wheelchair_accessible", "has_elevator",
                                      "elevator_working"}},
        stairs \in {EmptyDict, [has_stairs |-> FALSE]}}

\* the accessibility maps of the score specification: stop A has a profile
\* or none
ScoreMaps == {EmptyDict} \cup {[s \in {"A"} |-> p] : p \in ScoreProfiles}

\* the route ids of the segment records
Routes == {"1", "2", "Unknown"}

\* the lists of segment records passed to _count_transfers
DetailLists ==
    UNION {{[i \in 1..n |-> [from |-> "A", to |-> "B", route |-> routes[i],
                             time |-> 1]] :
               routes \in [1..n -> Routes]} :
           n \in 0..MaxSegments}

\* the travel_time cells of a transit CSV file
TimeCells == {"-1", "0", "1", "abc"}

\* the rows of a transit CSV file with the three required columns
CsvRows ==
    {row \in [from_stop : Stops, to_stop : Stops, travel_time : TimeCells] :
        row.from_stop # row.to_stop}

\* the transit CSV files: up to MaxRows rows, or no travel_time column
CsvFiles ==
    {[columns |-> {"from_stop", "to_stop", "travel_time"}, rows |-> rows] :
        rows \in UNION {[1..n -> CsvRows] : n \in 0..MaxRows}}
    \cup {[columns |-> {"from_stop", "to_stop"}, rows |-> << >>]}

\* the accessibility JSON files: missing, or every stop without stairs
JsonFiles ==
    {[exists |-> FALSE, content |-> EmptyDict],
     [exists |-> TRUE,
      content |-> [s \in Stops |-> [wheelchair_accessible |-> TRUE,
                                    has_stairs |-> FALSE]]]}

\* the command lines of main
MainArgs ==
    [start : Stops, end : Stops, accessible_only : BOOLEAN,
     wheelchair : {FALSE}, avoid_stairs : BOOLEAN,
     elevator_required : {FALSE}]

-----------------------------------------------------------------------------
(* The router as a state machine *)

NoCall == [op |-> "none"]

\* self.accessibility_data and the map the filter holds
RouterData == heap[router_ref]

FilterData == heap[filter_ref]

\* AccessibleRouter.__init__(transit_graph, accessibility_data): the router
\* and its filter both refer to the caller's dict, object 1
\* the flags of a segment that edge_meets_requirements reads
EdgeFlagKeys == {"wheelchair_accessible", "low_floor", "wide_doors"}

\* the segments of the segment-check specification: each flag absent, False
\* or True, with or without stairs
EdgeFlagDicts ==
    {[travel_time |-> 1, route_id |-> "1"] @@ flags @@ stairs :
        flags \in UNION {[K -> BOOLEAN] : K \in SUBSET EdgeFlagKeys},
        stairs \in {EmptyDict, [has_stairs |-> TRUE]}}

\* the accessibility maps of the segment-check specification: A has the full
\* profile or lacks low-floor service, B has the full profile, is not
\* wheelchair accessible, or has no entry
EdgeMaps ==
    {a @@ b :
        a \in {[s \in {"A"} |-> p] :
                  p \in {FullProfile,
                         [FullProfile EXCEPT !.low_floor_service = FALSE]}},
        b \in {EmptyDict} \cup
              {[s \in {"B"} |-> p] :
                  p \in {FullProfile,
                         [FullProfile EXCEPT
                             !.wheelchair_accessible = FALSE]}}}

RouterInit(transit_graph, accessibility_data) ==
    /\ graph = transit_graph
    /\ heap = [o \in {1} |-> accessibility_data]
    /\ router_ref = 1
    /\ filter_ref = 1
    /\ result = NoCall
    /\ inflight = NoCall
    /\ snapshots = {}
    /\ init_data = accessibility_data
    /\ updates_log = << >>
    /\ main = NoCall

Init ==
    \E g \in NetworksOver(QueryEdgeDicts) :
        \E a \in AccessibilityMapsOver(Stops, QueryProfiles) :
            RouterInit(g, a)

InitUpdate ==
    \E g \in UpdateNetworks : \E a \in UpdateInitMaps : RouterInit(g, a)

Idle == result = NoCall /\ inflight = NoCall

\* a caller calls find_path(start, end)
FindPath(start, end) ==
    /\ Idle
    /\ \E o \in find_path(graph, RouterData, start, end) :
          result' = [op |-> "find_path", start |-> start, end |-> end,
                     outcome |-> o]
    /\ UNCHANGED <<graph, heap, router_ref, filter_ref, inflight, snapshots,
                   init_data, updates_log, main>>

\* a caller calls find_accessible_path(start, end, requirements)
FindAccessiblePath(start, end, requirements) ==
    /\ Idle
    /\ \E o \in find_accessible_path(graph, RouterData, FilterData, start,
                                     end, requirements) :
          result' = [op |-> "find_accessible_path", start |-> start,
                     end |-> end, requirements |-> requirements,
                     outcome |-> o]
    /\ graph' = GraphAfterFilter(graph, FilterData, requirements)
    /\ UNCHANGED <<heap, router_ref, filter_ref, inflight, snapshots,
                   init_data, updates_log, main>>

\* a caller calls get_accessible_stops(requirements)
GetAccessibleStops(requirements) ==
    /\ Idle
    /\ result' = [op |-> "get_accessible_stops",
                  requirements |-> requirements,
                  outcome |-> Return(get_accessible_stops(graph, FilterData,
                                                          requirements))]
    /\ UNCHANGED <<graph, heap, router_ref, filter_ref, inflight, snapshots,
                   init_data, updates_log, main>>

\* a caller calls accessibility_filter.meets_requirements(stop, requirements)
MeetsRequirements(stop, requirements) ==
    /\ Idle
    /\ result' = [op |-> "meets_requirements", stop |-> stop,
                  requirements |-> requirements,
                  outcome |-> Return(meets_requirements(FilterData, stop,
                                                        requirements))]
    /\ UNCHANGED <<graph, heap, router_ref, filter_ref, inflight, snapshots,
                   init_data, updates_log, main>>

\* a caller calls accessibility_filter.edge_meets_requirements on a segment
\* of the network, as _create_accessible_graph does
EdgeMeetsRequirements(from_stop, to_stop, requirements) ==
    /\ Idle
    /\ {from_stop, to_stop} \in DOMAIN graph.edges
    /\ LET edge_data == graph.edges[{from_stop, to_stop}]
       IN  result' = [op |-> "edge_meets_requirements",
                      from_stop |-> from_stop, to_stop |-> to_stop,
                      edge_data |-> edge_data,
                      requirements |-> requirements,
                      outcome |-> Return(edge_meets_requirements(
                                             FilterData, from_stop, to_stop,
                                             edge_data, requirements))]
    /\ UNCHANGED <<graph, heap, router_ref, filter_ref, inflight, snapshots,
                   init_data, updates_log, main>>

\* a caller calls accessibility_filter.get_accessibility_score(stop)
GetAccessibilityScore(stop) ==
    /\ Idle
    /\ result' = [op |-> "get_accessibility_score", stop |-> stop,
                  outcome |-> Return(get_accessibility_score(FilterData,
                                                             stop))]
    /\ UNCHANGED <<graph, heap, router_ref, filter_ref, inflight, snapshots,
                   init_data, updates_log, main>>

\* a caller calls accessibility_filter.get_accessibility_summary(stop)
GetAccessibilitySummary(stop) ==
    /\ Idle
    /\ result' = [op |-> "get_accessibility_summary", stop |-> stop,
                  outcome |-> Return(get_accessibility_summary(FilterData,
                                                               stop))]
    /\ UNCHANGED <<graph, heap, router_ref, filter_ref, inflight, snapshots,
                   init_data, updates_log, main>>

\* _count_transfers(details) is called
CountTransfers(details) ==
    /\ Idle
    /\ result' = [op |-> "_count_transfers", details |-> details,
                  outcome |-> Return(_count_transfers(details))]
    /\ UNCHANGED <<graph, heap, router_ref, filter_ref, inflight, snapshots,
                   init_data, updates_log, main>>

\* a caller calls accessibility_filter.validate_requirements(requirements)
ValidateRequirements(requirements) ==
    /\ Idle
    /\ result' = [op |-> "validate_requirements",
                  requirements |-> requirements,
                  outcome |-> Return(validate_requirements(requirements))]
    /\ UNCHANGED <<graph, heap, router_ref, filter_ref, inflight, snapshots,
                   init_data, updates_log, main>>

\* a caller calls get_accessibility_info(stop)
GetAccessibilityInfo(stop) ==
    /\ Idle
    /\ result' = [op |-> "get_accessibility_info", stop |-> stop,
                  outcome |-> Return(get_accessibility_info(RouterData, stop))]
    /\ UNCHANGED <<graph, heap, router_ref, filter_ref, inflight, snapshots,
                   init_data, updates_log, main>>

\* update_accessibility writing the change to a fresh copy of the map that
\* only the router is pointed to; the filter keeps the old dict
UpdateStateCopied(h, rref, fref, stop, accessibility_updates) ==
    LET fresh == Cardinality(DOMAIN h) + 1
    IN  [heap |-> [o \in DOMAIN h \cup {fresh} |->
                      IF o = fresh
                      THEN update_accessibility(h[rref], stop,
                                                accessibility_updates)
                      ELSE h[o]],
         router_ref |-> fresh,
         filter_ref |-> fref]

\* The router's references and the heap after update_accessibility: the
\* dict the router refers to is changed in place, and the new
\* AccessibilityFilter is handed that same dict.
UpdateState(h, rref, fref, stop, accessibility_updates) ==
    [heap |-> [h EXCEPT ![rref] =
                  update_accessibility(h[rref], stop, accessibility_updates)],
     router_ref |-> rref,
     filter_ref |-> rref]

\* a caller calls update_accessibility(stop, **accessibility_updates)
UpdateAccessibility(stop, accessibility_updates) ==
    /\ result = NoCall
    /\ Len(updates_log) < MaxUpdates
    /\ LET after == UpdateState(heap, router_ref, filter_ref, stop,
                                accessibility_updates)
       IN  /\ heap' = after.heap
           /\ router_ref' = after.router_ref
           /\ filter_ref' = after.filter_ref
           /\ snapshots' = IF inflight = NoCall THEN snapshots
                           ELSE snapshots \cup {after.heap[after.filter_ref]}
    /\ updates_log' = Append(updates_log,
                             [stop |-> stop, changes |-> accessibility_updates])
    /\ UNCHANGED <<graph, result, inflight, init_data, main>>

\* the caller takes the returned value
ReturnToCaller ==
    /\ result # NoCall
    /\ result' = NoCall
    /\ UNCHANGED <<graph, heap, router_ref, filter_ref, inflight, snapshots,
                   init_data, updates_log, main>>

\* the queries of one caller at a time over every network of the bounds
Next ==
    \/ \E start \in StopNames, end \in StopNames : FindPath(start, end)
    \/ \E start \in StopNames, end \in StopNames :
          \E requirements \in RequirementLists :
             FindAccessiblePath(start, end, requirements)
    \/ \E requirements \in RequirementLists : GetAccessibleStops(requirements)
    \/ \E stop \in StopNames : GetAccessibilityInfo(stop)
    \/ ReturnToCaller

Spec == Init /\ [][Next]_vars

\* updates and the queries that follow them, one call at a time
NextUpdate ==
    \/ \E stop \in StopNames : \E changes \in UpdateChanges :
          inflight = NoCall /\ UpdateAccessibility(stop, changes)
    \/ \E start \in Stops, end \in Stops : FindPath(start, end)
    \/ \E start \in Stops, end \in Stops :
          \E requirements \in UpdateRequirementLists :
             FindAccessiblePath(start, end, requirements)
    \/ \E requirements \in UpdateRequirementLists :
          GetAccessibleStops(requirements)
    \/ \E stop \in StopNames : GetAccessibilityInfo(stop)
    \/ ReturnToCaller

SpecUpdate == InitUpdate /\ [][NextUpdate]_vars

\* a filter over a network of stops without segments, every profile of the
\* bounds
InitFilter ==
    \E a \in FilterMaps :
        RouterInit([nodes |-> FilterStops, edges |-> EmptyDict], a)

\* the calls of the filter, one at a time
NextFilter ==
    \/ \E requirements \in FilterRequirementLists :
          MeetsRequirements("A", requirements)
    \/ \E requirements \in FilterRequirementLists :
          GetAccessibleStops(requirements)
    \/ ReturnToCaller

SpecFilter == InitFilter /\ [][NextFilter]_vars

\* a router over the one stop A, with every profile of the bounds
InitScore ==
    \E a \in ScoreMaps : RouterInit([nodes |-> {"A"}, edges |-> EmptyDict], a)

\* scores, summaries, validations and transfer counts, one call at a time
NextScore ==
    \/ GetAccessibilityScore("A")
    \/ GetAccessibilitySummary("A")
    \/ \E requirements \in FilterRequirementLists :
          ValidateRequirements(requirements)
    \/ \E details \in DetailLists : CountTransfers(details)
    \/ ReturnToCaller

SpecScore == InitScore /\ [][NextScore]_vars

\* a filter over the network of the one segment A-B, every segment and map
\* of the bounds
InitEdge ==
    \E e \in EdgeFlagDicts : \E a \in EdgeMaps :
        RouterInit([nodes |-> FilterStops,
                    edges |-> [p \in {{"A", "B"}} |-> e]], a)

\* the segment checks, in either direction, one call at a time
NextEdge ==
    \/ \E from_stop \in FilterStops, to_stop \in FilterStops :
          \E requirements \in FilterRequirementLists :
             EdgeMeetsRequirements(from_stop, to_stop, requirements)
    \/ ReturnToCaller

SpecEdge == InitEdge /\ [][NextEdge]_vars

-----------------------------------------------------------------------------
(* main.py: load the two files, construct the router, answer one query.    *)

\* main has started: nothing is loaded, no router exists
InitLoad ==
    /\ \E args \in MainArgs, csv \in CsvFiles, json \in JsonFiles :
          main = [pc |-> "load", args |-> args, transit_data |-> csv,
                  accessibility_data |-> json]
    /\ graph = EmptyGraph
    /\ heap = [o \in {1} |-> EmptyDict]
    /\ router_ref = 1
    /\ filter_ref = 1
    /\ result = NoCall
    /\ inflight = NoCall
    /\ snapshots = {}
    /\ init_data = EmptyDict
    /\ updates_log = << >>

\* main loads the data and constructs the router; an exception of a loader
\* ends main with sys.exit(1)
MainLoad ==
    /\ main # NoCall
    /\ main.pc = "load"
    /\ LET transit_graph == load_transit_csv(main.transit_data)
           accessibility_data ==
               load_accessibility_json(main.accessibility_data)
       IN  IF transit_graph.raises \/ accessibility_data.raises
           THEN /\ main' = [main EXCEPT !.pc = "exit"]
                /\ UNCHANGED <<graph, heap, init_data>>
           ELSE /\ main' = [main EXCEPT !.pc = "query"]
                /\ graph' = transit_graph.value
                /\ heap' = [o \in {1} |-> accessibility_data.value]
                /\ init_data' = accessibility_data.value
    /\ UNCHANGED <<router_ref, filter_ref, result, inflight, snapshots,
                   updates_log>>

\* main asks the router for the route and prints it; an exception of the
\* query ends main with sys.exit(1)
MainFindRoute ==
    /\ main # NoCall
    /\ main.pc = "query"
    /\ LET requirements == MainRequirements(main.args)
           start == main.args.start
           end == main.args.end
       IN  IF requirements # << >>
           THEN /\ \E o \in find_accessible_path(graph, RouterData,
                                                  FilterData, start, end,
                                                  requirements) :
                      /\ result' = [op |-> "find_accessible_path",
                                    start |-> start, end |-> end,
                                    requirements |-> requirements,
                                    outcome |-> o]
                      /\ main' = [main EXCEPT !.pc = IF o.raises THEN "exit"
                                                     ELSE "done"]
                /\ graph' = GraphAfterFilter(graph, FilterData, requirements)
           ELSE /\ \E o \in find_path(graph, RouterData, start, end) :
                      /\ result' = [op |-> "find_path", start |-> start,
                                    end |-> end, outcome |-> o]
                      /\ main' = [main EXCEPT !.pc = IF o.raises THEN "exit"
                                                     ELSE "done"]
                /\ UNCHANGED graph
    /\ UNCHANGED <<heap, router_ref, filter_ref, inflight, snapshots,
                   init_data, updates_log>>

NextLoad ==
    \/ MainLoad
    \/ MainFindRoute

SpecLoad == InitLoad /\ [][NextLoad]_vars

-----------------------------------------------------------------------------
(* A query that runs while other callers update the accessibility data.    *)
(* find_accessible_path reads self.accessibility_filter again in every     *)
(* iteration of the two loops of _create_accessible_graph; the steps below *)
(* are the two loops and the search that follows them.                     *)

\* a caller enters find_accessible_path: accessible_graph = self.graph.copy()
BeginFindAccessiblePath(start, end, requirements) ==
    /\ Idle
    /\ inflight' = [op |-> "find_accessible_path", pc |-> "nodes",
                    start |-> start, end |-> end,
                    requirements |-> requirements,
                    accessible_graph |-> graph]
    /\ snapshots' = {FilterData}
    /\ UNCHANGED <<graph, heap, router_ref, filter_ref, result, init_data,
                   updates_log, main>>

\* the first loop of _create_accessible_graph and remove_nodes_from
RemoveNodes ==
    /\ inflight # NoCall
    /\ inflight.pc = "nodes"
    /\ inflight' =
          [inflight EXCEPT
              !.accessible_graph =
                  remove_nodes_from(@, nodes_to_remove(@, FilterData,
                                                       inflight.requirements)),
              !.pc = "edges"]
    /\ UNCHANGED <<graph, heap, router_ref, filter_ref, result, snapshots,
                   init_data, updates_log, main>>

\* the second loop of _create_accessible_graph and remove_edges_from
RemoveEdges ==
    /\ inflight # NoCall
    /\ inflight.pc = "edges"
    /\ inflight' =
          [inflight EXCEPT
              !.accessible_graph =
                  remove_edges_from(@, edges_to_remove(@, FilterData,
                                                       inflight.requirements)),
              !.pc = "search"]
    /\ UNCHANGED <<graph, heap, router_ref, filter_ref, result, snapshots,
                   init_data, updates_log, main>>

\* the rest of find_accessible_path, on the graph the two loops left
FinishFindAccessiblePath ==
    /\ inflight # NoCall
    /\ inflight.pc = "search"
    /\ \E o \in FindAccessiblePathOn(graph, RouterData,
                                     inflight.accessible_graph, inflight.start,
                                     inflight.end, inflight.requirements) :
          result' = [op |-> "find_accessible_path", start |-> inflight.start,
                     end |-> inflight.end,
                     requirements |-> inflight.requirements, outcome |-> o]
    /\ inflight' = NoCall
    /\ UNCHANGED <<graph, heap, router_ref, filter_ref, snapshots, init_data,
                   updates_log, main>>

\* the caller of the concurrent query takes the returned value
ReturnConcurrent ==
    /\ result # NoCall
    /\ result' = NoCall
    /\ snapshots' = {}
    /\ UNCHANGED <<graph, heap, router_ref, filter_ref, inflight, init_data,
                   updates_log, main>>

NextConcurrent ==
    \/ \E start \in Stops, end \in Stops :
          \E requirements \in UpdateRequirementLists :
             BeginFindAccessiblePath(start, end, requirements)
    \/ RemoveNodes
    \/ RemoveEdges
    \/ FinishFindAccessiblePath
    \/ \E stop \in Stops : \E changes \in UpdateChanges :
          UpdateAccessibility(stop, changes)
    \/ ReturnConcurrent

SpecConcurrent == InitUpdate /\ [][NextConcurrent]_vars

-----------------------------------------------------------------------------
(* What the claims are stated with: reference definitions that do not go   *)
(* through the router's own search                                         *)

\* the call in progress is a call of op that returned (did not raise)
Returned(op) ==
    result.op = op /\ ~result.outcome.raises

\* the call in progress returned an itinerary
Found(op) ==
    Returned(op) /\ result.outcome.value.path # None

\* the call in progress returned a not-found result with this message
NotFound(op, message) ==
    /\ Returned(op)
    /\ result.outcome.value.path = None
    /\ result.outcome.value.message = message

\* the stops reachable from the stops of seen along segments of g
RECURSIVE ReachableFrom(_, _)
ReachableFrom(g, seen) ==
    LET more == {w \in g.nodes \ seen :
                    \E v \in seen : {v, w} \in DOMAIN g.edges}
    IN  IF more = {} THEN seen ELSE ReachableFrom(g, seen \cup more)

Connected(g, s, t) ==
    s \in g.nodes /\ t \in ReachableFrom(g, {s})

\* every path of g from the last stop of p to t that visits no stop twice,
\* prefixed by p
RECURSIVE SimplePathsFrom(_, _, _)
SimplePathsFrom(g, p, t) ==
    IF p[Len(p)] = t THEN {p}
    ELSE UNION {SimplePathsFrom(g, Append(p, w), t) :
                  w \in {x \in g.nodes :
                            /\ {p[Len(p)], x} \in DOMAIN g.edges
                            /\ \A i \in 1..Len(p) : p[i] # x}}

\* the sum of travel_time along p
RECURSIVE PathTime(_, _)
PathTime(g, p) ==
    IF Len(p) <= 1 THEN 0
    ELSE g.edges[{p[1], p[2]}].travel_time + PathTime(g, Tail(p))

\* p walks along segments of g
FollowsSegments(g, p) ==
    /\ \A i \in 1..Len(p) : p[i] \in g.nodes
    /\ \A i \in 1..(Len(p) - 1) : {p[i], p[i + 1]} \in DOMAIN g.edges

\* the graph the call in progress searched
SearchedGraph ==
    IF result.op = "find_path" THEN graph
    ELSE _create_accessible_graph(graph, FilterData, result.requirements)

HasUnknownToken(requirements) ==
    \E i \in 1..Len(requirements) : requirements[i] \notin requirement_checkers

-----------------------------------------------------------------------------
(* The claims *)

\* C1: whenever find_accessible_path returns a found result, every stop on
\* the returned path meets the whole requirement list, and every two
\* consecutive stops of the path are joined by a segment of the network for
\* which edge_meets_requirements holds.
C1_FoundPathIsAccessible ==
    Found("find_accessible_path") =>
        LET path == result.outcome.value.path
            requirements == result.requirements
        IN  /\ \A i \in 1..Len(path) :
                  meets_requirements(FilterData, path[i], requirements)
            /\ \A i \in 1..(Len(path) - 1) :
                  /\ {path[i], path[i + 1]} \in DOMAIN graph.edges
                  /\ edge_meets_requirements(
                         FilterData, path[i], path[i + 1],
                         graph.edges[{path[i], path[i + 1]}], requirements)

\* C1 happens: an accessible path of two segments is returned although the
\* network joins its ends directly by a segment that is not wheelchair
\* accessible
C1_Witness ==
    /\ Found("find_accessible_path")
    /\ result.requirements = <<"wheelchair_accessible">>
    /\ Len(result.outcome.value.path) = 3
    /\ {result.start, result.end} \in DOMAIN graph.edges
    /\ ~graph.edges[{result.start, result.end}].wheelchair_accessible

\* C2: a found result of find_path (on the network) or find_accessible_path
\* (on the accessible subgraph) begins at start, ends at end, follows only
\* segments of the searched graph, and its total_time is the least sum of
\* travel_time over all start-to-end paths of that graph, the travel_time of
\* every segment being positive.
C2_ShortestPath ==
    (/\ Found("find_path") \/ Found("find_accessible_path")
     /\ \A e \in DOMAIN graph.edges : graph.edges[e].travel_time > 0) =>
        LET path == result.outcome.value.path
            total_time == result.outcome.value.total_time
            g == SearchedGraph
            all == SimplePathsFrom(g, <<result.start>>, result.end)
        IN  /\ path[1] = result.start
            /\ path[Len(path)] = result.end
            /\ FollowsSegments(g, path)
            /\ PathTime(g, path) = total_time
            /\ \A q \in all : total_time <= PathTime(g, q)

\* C2 happens: find_path returns a path of two segments that is strictly
\* faster than the direct segment between its ends
C2_Witness ==
    /\ Found("find_path")
    /\ Len(result.outcome.value.path) = 3
    /\ {result.start, result.end} \in DOMAIN graph.edges
    /\ result.outcome.value.total_time
           < graph.edges[{result.start, result.end}].travel_time

\* C3: the graph _create_accessible_graph builds for a requirement list
\* holds exactly the stops of the network that meet the list and exactly the
\* segments of the network whose two ends survive and for which
\* edge_meets_requirements holds, each with its attributes; it may be empty
\* or disconnected, and the call that built it still returns.
C3_ExactSubgraph ==
    result.op = "find_accessible_path" =>
        LET requirements == result.requirements
            accessible_graph ==
                _create_accessible_graph(graph, FilterData, requirements)
            kept == {n \in graph.nodes :
                        meets_requirements(FilterData, n, requirements)}
        IN  /\ accessible_graph.nodes = kept
            /\ DOMAIN accessible_graph.edges =
                  {e \in DOMAIN graph.edges :
                      /\ e \subseteq kept
                      /\ edge_meets_requirements(FilterData, EndA(e), EndB(e),
                                                 graph.edges[e], requirements)}
            /\ \A e \in DOMAIN accessible_graph.edges :
                  accessible_graph.edges[e] = graph.edges[e]
            /\ ~result.outcome.raises

\* C3 happens: the filter drops a stop and also a segment between two stops
\* that survive, and what is left is disconnected
C3_Witness ==
    /\ result.op = "find_accessible_path"
    /\ LET accessible_graph ==
               _create_accessible_graph(graph, FilterData, result.requirements)
       IN  /\ accessible_graph.nodes # graph.nodes
           /\ Cardinality(accessible_graph.nodes) = 2
           /\ accessible_graph.nodes \in DOMAIN graph.edges
           /\ DOMAIN accessible_graph.edges = {}

\* C4: a requirement list with a string outside the nine recognized names,
\* at any position, is met by no stop whatever its profile, so that
\* find_accessible_path with such a list never returns a found result (and
\* get_accessible_stops lists no stop).
C4_FailClosed ==
    /\ (result.op = "find_accessible_path"
        /\ HasUnknownToken(result.requirements)) =>
          /\ \A stop \in StopNames :
                ~meets_requirements(FilterData, stop, result.requirements)
          /\ ~Found("find_accessible_path")
    /\ (result.op = "get_accessible_stops"
        /\ HasUnknownToken(result.requirements)) =>
          result.outcome.value = {}

\* C4 happens: the unknown token comes after a recognized one that alone
\* would have given a route between the two stops
C4_Witness ==
    /\ result.op = "find_accessible_path"
    /\ result.requirements = <<"wheelchair_accessible", "teleportation">>
    /\ ~Found("find_accessible_path")
    /\ \E o \in find_accessible_path(graph, RouterData, FilterData,
                                     result.start, result.end,
                                     <<"wheelchair_accessible">>) :
          ~o.raises /\ o.value.path # None /\ Len(o.value.path) > 1

\* C5: find_path reports an unknown stop apart from a missing path: when
\* start or end is no stop of the network the result is the not-found
\* result "Stop not found"; "No route found" is returned only when both are
\* stops of the network and lie in different connected components.
C5_UnknownStopDistinct ==
    result.op = "find_path" =>
        /\ (result.start \notin graph.nodes \/ result.end \notin graph.nodes)
              => NotFound("find_path", "Stop not found")
        /\ NotFound("find_path", "No route found") =>
              /\ result.start \in graph.nodes
              /\ result.end \in graph.nodes
              /\ ~Connected(graph, result.start, result.end)

\* C5 happens: start is a stop of a network with segments and end is not
C5_Witness ==
    /\ NotFound("find_path", "Stop not found")
    /\ result.start \in graph.nodes
    /\ result.end \notin graph.nodes
    /\ \E e \in DOMAIN graph.edges : result.start \in e

C8_SnapshotIsolation ==
    (result.op = "find_accessible_path" /\ snapshots # {}) =>
        \E snap \in snapshots :
            result.outcome \in
                find_accessible_path(graph, snap, snap, result.start,
                                     result.end, result.requirements)

\* the accessibility data that the updates made so far, applied in order to
\* the data the router started with, amount to: for every stop and key the
\* value of the last update that names them, else the initial value
ExpectedProfile(stop) ==
    LET idx == {i \in 1..Len(updates_log) : updates_log[i].stop = stop}
        base == Get(init_data, stop, EmptyDict)
        keys == DOMAIN base
                  \cup UNION {DOMAIN updates_log[i].changes : i \in idx}
        setters(k) == {i \in idx : k \in DOMAIN updates_log[i].changes}
        last(k) == CHOOSE i \in setters(k) : \A j \in setters(k) : j <= i
    IN  [k \in keys |->
            IF setters(k) = {} THEN base[k]
            ELSE updates_log[last(k)].changes[k]]

ExpectedData ==
    [stop \in DOMAIN init_data
                \cup {updates_log[i].stop : i \in 1..Len(updates_log)} |->
        ExpectedProfile(stop)]

\* C9: update_accessibility(stop, changes) merges and touches nothing else:
\* afterwards the profile of stop maps every key of changes to its new value
\* and every other key to the value it had (a stop without a profile gets
\* exactly changes); the profiles of the other stops and the stops and
\* segments of the network are as before.
C9_MergeAndFrame ==
    [][Len(updates_log') = Len(updates_log) + 1 =>
          LET u == updates_log'[Len(updates_log')]
              before == heap[router_ref]
              after == heap'[router_ref']
              old == Get(before, u.stop, EmptyDict)
          IN  /\ u.stop \in DOMAIN after
              /\ DOMAIN after[u.stop] = DOMAIN old \cup DOMAIN u.changes
              /\ \A k \in DOMAIN u.changes : after[u.stop][k] = u.changes[k]
              /\ \A k \in DOMAIN old \ DOMAIN u.changes :
                    after[u.stop][k] = old[k]
              /\ DOMAIN after \ {u.stop} = DOMAIN before \ {u.stop}
              /\ \A s \in DOMAIN before \ {u.stop} : after[s] = before[s]
              /\ graph' = graph]_vars

\* C9 happens: the last update left a key of the stop's profile alone and
\* overwrote another one with a different value
C9_Witness ==
    /\ updates_log # << >>
    /\ LET u == updates_log[Len(updates_log)]
           old == Get(init_data, u.stop, EmptyDict)
       IN  /\ Len(updates_log) = 1
           /\ DOMAIN old \ DOMAIN u.changes # {}
           /\ \E k \in DOMAIN old \cap DOMAIN u.changes :
                  old[k] # u.changes[k] /\ RouterData[u.stop][k] = u.changes[k]

\* C10: after any sequence of update_accessibility calls the filter and the
\* router hold the same accessibility map, the one all the updates applied
\* in order amount to, and the queries that follow are answered from it:
\* get_accessible_stops lists exactly the stops that meet the requirements
\* under it, every stop of an accessible path meets them under it, and
\* get_accessibility_info returns the stop's profile in it.
C10_UpdatesObserved ==
    /\ FilterData = RouterData
    /\ RouterData = ExpectedData
    /\ result.op = "get_accessible_stops" =>
          result.outcome.value =
              {stop \in graph.nodes :
                  meets_requirements(ExpectedData, stop, result.requirements)}
    /\ Found("find_accessible_path") =>
          \A i \in 1..Len(result.outcome.value.path) :
              meets_requirements(ExpectedData, result.outcome.value.path[i],
                                 result.requirements)
    /\ result.op = "get_accessibility_info" =>
          result.outcome.value = Get(ExpectedData, result.stop, EmptyDict)

\* C10 happens: a stop made wheelchair accessible by one update and not
\* accessible by the next is missing from get_accessible_stops
C10_Witness ==
    /\ Len(updates_log) = 2
    /\ updates_log[1].stop = updates_log[2].stop
    /\ updates_log[1].changes = [wheelchair_accessible |-> TRUE]
    /\ updates_log[2].changes = [wheelchair_accessible |-> FALSE]
    /\ result.op = "get_accessible_stops"
    /\ result.requirements = <<"wheelchair_accessible">>
    /\ updates_log[1].stop \in graph.nodes
    /\ updates_log[1].stop \notin result.outcome.value
    /\ result.outcome.value # {}

\* C11: no call of the router changes the network it holds: in every step
\* of find_path, find_accessible_path, get_accessible_stops and
\* update_accessibility, found or not found, the stops, the segments and
\* the segment attributes of self.graph stay what they were.
C11_BaseNetworkKept == [][graph' = graph]_vars

\* find_accessible_path has returned from a filtering that removed a stop or
\* a segment from its copy, after an update
C11_Witness ==
    /\ result.op = "find_accessible_path"
    /\ updates_log # << >>
    /\ _create_accessible_graph(graph, FilterData, result.requirements)
           # graph
    /\ DOMAIN graph.edges # {}

\* the elements of a list
Range(seq) == {seq[i] : i \in 1..Len(seq)}

\* the non-empty requirement lists made of the tokens of a set, in every
\* order and with repetitions
ListsOver(tokens) == UNION {[1..n -> tokens] : n \in 1..MaxReqLen}

\* the call in progress passed a non-empty list of recognized requirements
RecognizedCall ==
    /\ result.requirements # << >>
    /\ Range(result.requirements) \subseteq requirement_checkers

\* C12: requirement satisfaction is monotone: a stop that meets a non-empty
\* list R2 of recognized requirements meets every non-empty list R1 made of
\* requirements of R2, in any order; and the stops get_accessible_stops
\* returns for R2 are among those it returns for R1.
C12_Monotone ==
    /\ (result.op = "meets_requirements" /\ RecognizedCall
           /\ result.outcome.value) =>
          \A R1 \in ListsOver(Range(result.requirements)) :
              meets_requirements(FilterData, result.stop, R1)
    /\ (result.op = "get_accessible_stops" /\ RecognizedCall) =>
          \A R1 \in ListsOver(Range(result.requirements)) :
              result.outcome.value
                  \subseteq get_accessible_stops(graph, FilterData, R1)

\* a stop meets a list of two requirements of which a second stop of the
\* network meets only one
C12_Witness ==
    /\ result.op = "get_accessible_stops"
    /\ RecognizedCall
    /\ Cardinality(Range(result.requirements)) = 2
    /\ result.outcome.value = {"B"}
    /\ get_accessible_stops(graph, FilterData,
                            <<result.requirements[1]>>) = {"A", "B"}

\* C13: deriving the accessible subgraph is idempotent: for the network,
\* the accessibility map and the requirement list of every
\* find_accessible_path call, filtering the filtered graph again with the
\* same requirements gives a graph with the same stops, the same segments
\* and the same segment attributes.
C13_Idempotent ==
    result.op = "find_accessible_path" =>
        LET once == _create_accessible_graph(graph, FilterData,
                                             result.requirements)
            twice == _create_accessible_graph(once, FilterData,
                                              result.requirements)
        IN  /\ twice.nodes = once.nodes
            /\ DOMAIN twice.edges = DOMAIN once.edges
            /\ \A e \in DOMAIN once.edges : twice.edges[e] = once.edges[e]

\* a filtering that removed a stop with its segment, removed the segment
\* between the two stops it kept, and so left stops without segments, has
\* happened
C13_Witness ==
    /\ result.op = "find_accessible_path"
    /\ LET once == _create_accessible_graph(graph, FilterData,
                                            result.requirements)
       IN  /\ once.nodes # graph.nodes
           /\ once.nodes # {}
           /\ \E e \in DOMAIN graph.edges : ~(e \subseteq once.nodes)
           /\ \E e \in DOMAIN graph.edges \ DOMAIN once.edges :
                  e \subseteq once.nodes

C15_CountsRouteChanges ==
    result.op = "_count_transfers" =>
        LET details == result.details
            changes == {i \in 2..Len(details) :
                           details[i].route # details[i - 1].route}
        IN  /\ ~result.outcome.raises
            /\ result.outcome.value = Cardinality(changes)
            /\ Len(details) <= 1 => result.outcome.value = 0
            /\ (\A i, j \in 1..Len(details) :
                    details[i].route = details[j].route)
                  => result.outcome.value = 0

\* three segments that change route, return to the first route and so
\* count two transfers over two routes
C15_Witness ==
    /\ result.op = "_count_transfers"
    /\ Len(result.details) = 3
    /\ result.details[1].route = result.details[3].route
    /\ result.details[1].route # result.details[2].route
    /\ result.outcome.value = 2

\* the weight of a feature in hundredths
Hundredths(feature) ==
    CASE feature = "wheelchair_accessible" -> 25
      [] feature = "has_elevator" -> 15
      [] feature \in {"elevator_working", "has_ramp", "audio_announcements",
                      "visual_displays"} -> 10
      [] OTHER -> 5

\* the sum of the hundredths of the features of a set
RECURSIVE SumHundredths(_)
SumHundredths(fs) ==
    IF fs = {} THEN 0
    ELSE LET f == CHOOSE x \in fs : TRUE
         IN  Hundredths(f) + SumHundredths(fs \ {f})

\* the float a decimal literal of c hundredths denotes, c a multiple of 5
\* from 0 to 100 (0.8 for c = 80)
FloatOfHundredths(c) ==
    <<<<0, 0>>, <<53687091, 214748368>>, <<107374182, 429496736>>,
      <<161061273, 644245088>>, <<214748364, 858993472>>, <<268435456, 0>>,
      <<322122547, 214748352>>, <<375809638, 429496704>>,
      <<429496729, 644245120>>, <<483183820, 858993472>>, <<536870912, 0>>,
      <<590558003, 214748416>>, <<644245094, 429496704>>,
      <<697932185, 644245120>>, <<751619276, 858993408>>, <<805306368, 0>>,
      <<858993459, 214748416>>, <<912680550, 429496704>>,
      <<966367641, 644245120>>, <<1020054732, 858993408>>,
      <<1073741824, 0>>>>[c \div 5 + 1]

\* the features that are present and true in the profile of a stop
TrueFeatures(stop) ==
    {f \in ScoreFeatures : Get(Get(FilterData, stop, EmptyDict), f, FALSE)}

\* C16: get_accessibility_score(stop) is the sum of the weights of the
\* features that are present and true, capped at 1.0: the float that the
\* sum in hundredths denotes; it lies in [0, 1], is 1.0 when all ten
\* features are true and 0.0 for a stop with no profile.
C16_ScoreIsWeightSum ==
    result.op = "get_accessibility_score" =>
        LET score == result.outcome.value
            sum == SumHundredths(TrueFeatures(result.stop))
        IN  /\ score = FloatOfHundredths(IF sum > 100 THEN 100 ELSE sum)
            /\ FloatGE(score, Float_0_0) /\ FloatGE(Float_1_0, score)
            /\ TrueFeatures(result.stop) = ScoreFeatures => score = Float_1_0
            /\ result.stop \notin DOMAIN FilterData => score = Float_0_0

\* the lower bounds of the levels above Poor
LevelBounds == {Float_0_2, Float_0_4, Float_0_6, Float_0_8}

Levels == <<"Poor", "Limited", "Fair", "Good", "Excellent">>

\* C17: get_accessibility_summary assigns the level from the score it
\* reports, with inclusive lower bounds: Excellent from 0.8, Good from 0.6,
\* Fair from 0.4, Limited from 0.2, Poor below; every profile gets exactly
\* one level; the profile whose true features are wheelchair_accessible,
\* has_elevator, elevator_working, audio_announcements and visual_displays
\* scores 0.70 and is Good.
C17_LevelFromScore ==
    result.op = "get_accessibility_summary" =>
        LET summary == result.outcome.value
            score == summary.accessibility_score
            reached == {b \in LevelBounds : FloatGE(score, b)}
        IN  /\ score = get_accessibility_score(FilterData, result.stop)
            /\ summary.accessibility_level = Levels[Cardinality(reached) + 1]
            /\ Cardinality({i \in 1..Len(Levels) :
                               summary.accessibility_level = Levels[i]}) = 1
            /\ TrueFeatures(result.stop)
                   = {"wheelchair_accessible", "has_elevator",
                      "elevator_working", "audio_announcements",
                      "visual_displays"}
                 => /\ score = FloatOfHundredths(70)
                    /\ summary.accessibility_level = "Good"

\* the summary of a stop whose score is exactly the lower bound 0.4 says Fair
C17_Witness ==
    /\ result.op = "get_accessibility_summary"
    /\ result.outcome.value.accessibility_score = Float_0_4
    /\ result.outcome.value.accessibility_level = "Fair"
    /\ TrueFeatures(result.stop) = {"wheelchair_accessible", "has_elevator"}

\* one of the nine recognized requirement names
IsRecognized(req) == req \in requirement_checkers

IsUnrecognized(req) == req \notin requirement_checkers

\* C18: validate_requirements partitions its input: 'valid' is the
\* sub-sequence of the elements that are recognized names, 'invalid' the
\* sub-sequence of the others, both in input order with duplicates kept;
\* all_valid is True exactly when 'invalid' is empty, so for the empty list
\* too; the call does not raise.
C18_Partition ==
    result.op = "validate_requirements" =>
        /\ ~result.outcome.raises
        /\ LET v == result.outcome.value
           IN  /\ v.valid = SelectSeq(result.requirements, IsRecognized)
               /\ v.invalid = SelectSeq(result.requirements, IsUnrecognized)
               /\ Len(v.valid) + Len(v.invalid) = Len(result.requirements)
               /\ v.all_valid <=> v.invalid = << >>
               /\ result.requirements = << >> => v.all_valid

\* the same recognized name twice is kept twice, and the list of a
\* recognized name and teleportation is split in two
C18_Witness ==
    /\ result.op = "validate_requirements"
    /\ \/ /\ result.requirements
                 = <<"wheelchair_accessible", "wheelchair_accessible">>
          /\ result.outcome.value.valid = result.requirements
          /\ result.outcome.value.all_valid
       \/ /\ result.requirements = <<"wheelchair_accessible", "teleportation">>
          /\ result.outcome.value.valid = <<"wheelchair_accessible">>
          /\ result.outcome.value.invalid = <<"teleportation">>
          /\ ~result.outcome.value.all_valid

\* C19: find_accessible_path validates its requirement list: it returns an
\* itinerary marked accessible only when the list is non-empty and every
\* token in it is one of the nine recognized names.
C19_RequirementsValidated ==
    (Found("find_accessible_path") /\ result.outcome.value.accessible) =>
        /\ result.requirements # << >>
        /\ Range(result.requirements) \subseteq requirement_checkers

\* C20: a network with a segment of non-positive travel_time never reaches
\* a query: the load fails before the router is constructed, so that every
\* segment of the network a find_path or find_accessible_path call has
\* searched has travel_time > 0.
C20_NonPositiveRejected ==
    (main # NoCall /\ main.pc \in {"done", "exit"}
       /\ result.op \in {"find_path", "find_accessible_path"}) =>
        \A e \in DOMAIN graph.edges : graph.edges[e].travel_time > 0

-----------------------------------------------------------------------------
\* C21: edge_meets_requirements is True exactly when both ends meet the
\* whole list and the segment's wheelchair_accessible, low_floor and
\* wide_doors flags are true where 'wheelchair_accessible',
\* 'low_floor_vehicle' and 'wide_doors' are required, an absent flag counting
\* as false; no other requirement looks at the segment, and the segment is
\* kept in the accessible subgraph exactly when the check is True.
C21_EdgeCheck ==
    (result.op = "edge_meets_requirements") =>
        LET required == Range(result.requirements)
            edge_data == result.edge_data
            Flag(k) == k \in DOMAIN edge_data /\ edge_data[k] = TRUE
            expected ==
                /\ meets_requirements(FilterData, result.from_stop,
                                      result.requirements)
                /\ meets_requirements(FilterData, result.to_stop,
                                      result.requirements)
                /\ "wheelchair_accessible" \in required
                      => Flag("wheelchair_accessible")
                /\ "low_floor_vehicle" \in required => Flag("low_floor")
                /\ "wide_doors" \in required => Flag("wide_doors")
            kept == {result.from_stop, result.to_stop} \in
                        DOMAIN _create_accessible_graph(
                                   graph, FilterData,
                                   result.requirements).edges
        IN  /\ result.outcome = Return(expected)
            /\ kept = expected

\* a segment with stairs between two stops that meet 'no_stairs' has passed
\* the check with 'no_stairs' required
C21_Witness ==
    /\ result.op = "edge_meets_requirements"
    /\ "no_stairs" \in Range(result.requirements)
    /\ Get(result.edge_data, "has_stairs", FALSE)
    /\ result.outcome = Return(TRUE)

-----------------------------------------------------------------------------
\* the documented predicate of one requirement over a profile: an absent
\* attribute has its documented default
DocumentedCheck(requirement, profile) ==
    LET IsTrue(k) == k \in DOMAIN profile /\ profile[k] = TRUE
        IsFalse(k) == k \in DOMAIN profile /\ profile[k] = FALSE
    IN  CASE requirement = "no_stairs" ->
                IsFalse("has_stairs") \/ IsTrue("has_elevator")
                \/ IsTrue("has_ramp")
          [] requirement = "working_elevator" ->
                IsTrue("has_elevator") /\ ~IsFalse("elevator_working")
          [] requirement = "low_floor_vehicle" -> IsTrue("low_floor_service")
          [] OTHER -> IsTrue(requirement)

\* C22: the check of a single recognized requirement on a stop equals its
\* documented predicate over the stop's profile, an absent attribute and an
\* absent profile taking the documented defaults; a stop without an entry
\* in the accessibility data meets no non-empty requirement list, and is
\* neither listed by get_accessible_stops nor left in the accessible
\* subgraph.
C22_DocumentedChecks ==
    /\ (result.op = "meets_requirements" /\ Len(result.requirements) = 1
           /\ result.requirements[1] \in requirement_checkers) =>
          result.outcome =
              Return(DocumentedCheck(
                         result.requirements[1],
                         IF result.stop \in DOMAIN FilterData
                         THEN FilterData[result.stop] ELSE EmptyDict))
    /\ (result.op = "meets_requirements" /\ result.requirements # << >>
           /\ result.stop \notin DOMAIN FilterData) =>
          result.outcome = Return(FALSE)
    /\ (result.op = "get_accessible_stops" /\ result.requirements # << >>) =>
          \A stop \in graph.nodes \ DOMAIN FilterData :
              /\ stop \notin result.outcome.value
              /\ stop \notin _create_accessible_graph(
                                 graph, FilterData,
                                 result.requirements).nodes

\* a stop with an elevator and no elevator_working attribute has met
\* 'working_elevator'
C22_Witness ==
    /\ result.op = "meets_requirements"
    /\ result.requirements = <<"working_elevator">>
    /\ result.stop \in DOMAIN FilterData
    /\ "has_elevator" \in DOMAIN FilterData[result.stop]
    /\ "elevator_working" \notin DOMAIN FilterData[result.stop]
    /\ result.outcome = Return(TRUE)

\* a stop without an entry in the accessibility data has been left out of
\* the stops listed for a requirement
C22_WitnessNoEntry ==
    /\ result.op = "get_accessible_stops"
    /\ result.requirements # << >>
    /\ graph.nodes \ DOMAIN FilterData # {}
    /\ result.outcome.value # {}


-----------------------------------------------------------------------------
\* the sum of the 'time' fields of a list of segment records
RECURSIVE SumOfTimes(_)
SumOfTimes(details) ==
    IF details = << >> THEN 0
    ELSE details[1].time + SumOfTimes(Tail(details))

\* C23: in every found result of find_path or find_accessible_path,
\* 'details' has len(path) - 1 records, record i goes from path[i] to
\* path[i + 1] and carries the route_id and the travel_time of the segment
\* of the network that joins them, and the 'time' fields sum to total_time;
\* a query with start equal to end, a stop of the searched graph, is found
\* with path [start], total_time 0, no records and 0 transfers.
C23_ItineraryConsistent ==
    /\ (Found("find_path") \/ Found("find_accessible_path")) =>
          LET path == result.outcome.value.path
              details == result.outcome.value.details
          IN  /\ Len(details) = Len(path) - 1
              /\ \A i \in 1..Len(details) :
                    /\ details[i].from = path[i]
                    /\ details[i].to = path[i + 1]
                    /\ {path[i], path[i + 1]} \in DOMAIN graph.edges
                    /\ details[i].route =
                          graph.edges[{path[i], path[i + 1]}].route_id
                    /\ details[i].time =
                          graph.edges[{path[i], path[i + 1]}].travel_time
              /\ SumOfTimes(details) = result.outcome.value.total_time
    /\ (/\ result.op \in {"find_path", "find_accessible_path"}
        /\ result.start = result.end
        /\ result.start \in SearchedGraph.nodes) =>
          /\ ~result.outcome.raises
          /\ result.outcome.value.path = <<result.start>>
          /\ result.outcome.value.total_time = 0
          /\ result.outcome.value.details = << >>
          /\ result.outcome.value.transfers = 0

====
